---- MODULE Spec2Model ----
(***************************************************************************)
(* A model of python/servo/command_base.py: the binary locator             *)
(* (CommandBase.get_binary_path), the deterministic archiver               *)
(* (archive_deterministically) and the environment composer                *)
(* (CommandBase.build_env).                                                *)
(*                                                                         *)
(* Strings of the program (paths, values of environment variables) are     *)
(* sequences of pieces; a piece is a TLA+ string standing for a path       *)
(* component, a character or a flag.  Concatenation of program strings is  *)
(* \o on these sequences.                                                  *)
(***************************************************************************)
EXTENDS Integers, Sequences, FiniteSets, TLC

VARIABLES
    platform,   \* sys.platform of the process
    environ,    \* os.environ: variable name -> value
    pathIsUnicode, \* type(os.environ['PATH']) == unicode
    config,     \* self.config after CommandBase.__init__
    files,      \* the binaries that exist on disk (a set of paths)
    ret,        \* the outcome of the last get_binary_path call
    tree,       \* the directory to archive: relative path -> entry
    dest,       \* the file at dest_archive
    temp,       \* the file at dest_archive + ".temp~"
    ar,         \* the archive_deterministically invocation in progress
    made,       \* the invocation that produced the file at dest_archive
    nruns,      \* invocations of archive_deterministically so far
    nedits,     \* changes made to the directory so far
    world,      \* what build_env finds outside: ld.gold, the git checkout
    call,       \* the last build_env call: its arguments and its result
    nenv,       \* changes made to the environment and configuration so far
    bootstrapped, \* context.bootstrapped
    boot        \* the ensure_bootstrapped calls on the context so far

locateVars == <<files, ret>>

sharedVars == <<platform, environ, pathIsUnicode, config>>

archiveVars == <<tree, dest, temp, ar, made, nruns, nedits>>

envVars == <<world, call, nenv>>

bootVars == <<bootstrapped, boot>>

vars == <<platform, environ, pathIsUnicode, config, files, ret,
          tree, dest, temp, ar, made, nruns, nedits, world, call, nenv,
          bootstrapped, boot>>

(***************************************************************************)
(* Bounds of the model.                                                    *)
(***************************************************************************)
MaxFiles == 2

MaxRuns == 2

MaxEdits == 1

MaxStale == 6

MaxEnvEdits == 2

MaxBootCalls == 3

MaxInstances == 2

(***************************************************************************)
(* Dictionaries.                                                           *)
(***************************************************************************)
Put(d, k, v) == [x \in (DOMAIN d) \cup {k} |-> IF x = k THEN v ELSE d[x]]

Del(d, k) == [x \in (DOMAIN d) \ {k} |-> d[x]]

Has(d, k) == k \in DOMAIN d

\* dict.get(k, default)
Get(d, k, default) == IF k \in DOMAIN d THEN d[k] ELSE default

(***************************************************************************)
(* The process.                                                            *)
(***************************************************************************)
Platforms == {"linux2", "darwin", "win32"}

is_windows == platform = "win32"

is_macosx == platform = "darwin"

is_linux == platform = "linux2"

BIN_SUFFIX == IF platform = "win32" THEN ".exe" ELSE ""

topdir == <<"top">>

BaseEnviron == [k \in {"PATH", "HOME"} |->
                   IF k = "PATH" THEN <<"/bin">> ELSE <<"/home">>]

(***************************************************************************)
(* CommandBase.__init__: the defaults of a missing .servobuild, then       *)
(* handle_android_target("armv7-linux-androideabi").                       *)
(***************************************************************************)
AndroidTargets == {"arm-linux-androideabi", "armv7-linux-androideabi",
                   "aarch64-linux-android", "i686-linux-android"}

android_platform(target) ==
    IF target = "aarch64-linux-android" THEN "android-21" ELSE "android-18"

\* The configuration after handle_android_target(target); an unknown target
\* changes nothing (the method returns False).
handle_android_target(cfg, target) ==
    IF target \in AndroidTargets
    THEN [cfg EXCEPT !.android_platform = android_platform(target),
                     !.android_target = target]
    ELSE cfg

ConfigDefaults ==
    [rustc_with_gold |-> TRUE,
     rustflags |-> <<>>,
     incremental |-> "None",
     thinlto |-> FALSE,
     ccache |-> <<>>,
     android_sdk |-> <<>>,
     android_ndk |-> <<>>,
     android_toolchain |-> <<>>,
     android_platform |-> "",
     android_target |-> ""]

InitConfig == handle_android_target(ConfigDefaults, "armv7-linux-androideabi")

(***************************************************************************)
(* The binary locator.                                                     *)
(***************************************************************************)
\* path.join of a path and one more component
PathJoin(p, name) == p \o <<name>>

get_target_dir ==
    IF Has(environ, "CARGO_TARGET_DIR")
    THEN environ["CARGO_TARGET_DIR"]
    ELSE PathJoin(topdir, "target")

base_path(android) ==
    IF android
    THEN PathJoin(get_target_dir, config.android_target)
    ELSE get_target_dir

binary_name == "servo" \o BIN_SUFFIX

release_path(android) == PathJoin(PathJoin(base_path(android), "release"), binary_name)

dev_path(android) == PathJoin(PathJoin(base_path(android), "debug"), binary_name)

\* path.exists
exists(p) == p \in files

\* "Prefer release if both given": the dev flag after lines 346-347
prefer_release_NoOverride(release, dev) == dev

prefer_release(release, dev) == IF release /\ dev THEN FALSE ELSE dev

Returned(p) == [kind |-> "return", value |-> p]

Raised(exc) == [kind |-> "raise", value |-> <<exc>>]

Exited == [kind |-> "exit", value |-> <<>>]

\* The last two branches of get_binary_path: no preference given and one
\* profile built, or the preferred profile missing.
no_preference_PickRelease(release, dev, android) ==
    IF ~dev /\ ~release
    THEN IF exists(release_path(android))
         THEN Returned(release_path(android))
         ELSE Returned(dev_path(android))
    ELSE Exited

no_preference_ReturnOther(release, dev, android) ==
    IF ~dev /\ ~release /\ exists(release_path(android)) /\ exists(dev_path(android))
    THEN Exited
    ELSE IF exists(release_path(android))
         THEN Returned(release_path(android))
         ELSE Returned(dev_path(android))

no_preference(release, dev, android) ==
    IF ~dev /\ ~release /\ exists(release_path(android)) /\ exists(dev_path(android))
    THEN Exited
    ELSE IF ~dev /\ ~release
         THEN IF exists(release_path(android))
              THEN Returned(release_path(android))
              ELSE Returned(dev_path(android))
         ELSE Exited

\* Lines 356-360 without their look at release_exists and dev_exists.
select_Unchecked(release, dev, android) ==
    IF ~exists(release_path(android)) /\ ~exists(dev_path(android))
    THEN Raised("BuildNotFound")
    ELSE IF release
         THEN Returned(release_path(android))
         ELSE IF dev
              THEN Returned(dev_path(android))
              ELSE no_preference(release, dev, android)

select_NoNotFound(release, dev, android) ==
    IF release /\ exists(release_path(android))
    THEN Returned(release_path(android))
    ELSE IF dev /\ exists(dev_path(android))
         THEN Returned(dev_path(android))
         ELSE no_preference(release, dev, android)

\* get_binary_path after the flags are settled (lines 349-376)
select(release, dev, android) ==
    IF ~exists(release_path(android)) /\ ~exists(dev_path(android))
    THEN Raised("BuildNotFound")
    ELSE IF release /\ exists(release_path(android))
         THEN Returned(release_path(android))
         ELSE IF dev /\ exists(dev_path(android))
              THEN Returned(dev_path(android))
              ELSE no_preference(release, dev, android)

get_binary_path(release, dev, android) ==
    select(release, prefer_release(release, dev), android)

NoCall == [called |-> FALSE, release |-> FALSE, dev |-> FALSE,
           android |-> FALSE, out |-> Exited]

\* One call of get_binary_path.
GetBinaryPath(release, dev, android) ==
    /\ ret' = [called |-> TRUE, release |-> release, dev |-> dev,
               android |-> android, out |-> get_binary_path(release, dev, android)]
    /\ UNCHANGED <<files, sharedVars, archiveVars, envVars, bootVars>>

\* `./mach build [--release] [--android]` leaves a binary at its path.
Build(release, android) ==
    LET p == IF release THEN release_path(android) ELSE dev_path(android)
    IN  /\ p \notin files
        /\ Cardinality(files) < MaxFiles
        /\ files' = files \cup {p}
        /\ ret' = NoCall
        /\ UNCHANGED <<sharedVars, archiveVars, envVars, bootVars>>

\* A binary is removed (`./mach clean`, or by hand).
Remove(p) ==
    /\ p \in files
    /\ files' = files \ {p}
    /\ ret' = NoCall
    /\ UNCHANGED <<sharedVars, archiveVars, envVars, bootVars>>

\* The user sets or unsets CARGO_TARGET_DIR.
SetCargoTargetDir ==
    /\ ~Has(environ, "CARGO_TARGET_DIR")
    /\ environ' = Put(environ, "CARGO_TARGET_DIR", <<"cargo">>)
    /\ ret' = NoCall
    /\ UNCHANGED <<platform, pathIsUnicode, config, files, archiveVars, envVars, bootVars>>

UnsetCargoTargetDir ==
    /\ Has(environ, "CARGO_TARGET_DIR")
    /\ environ' = Del(environ, "CARGO_TARGET_DIR")
    /\ ret' = NoCall
    /\ UNCHANGED <<platform, pathIsUnicode, config, files, archiveVars, envVars, bootVars>>

\* A command selects an android target (--target).
AndroidTargetInputs == {"armv7-linux-androideabi", "aarch64-linux-android", "mips-linux"}

HandleAndroidTarget(target) ==
    /\ config' = handle_android_target(config, target)
    /\ config' # config
    /\ ret' = NoCall
    /\ UNCHANGED <<platform, environ, pathIsUnicode, files, archiveVars, envVars, bootVars>>

\* The archiver at rest, for the specifications that are not about it.
ArchiveIdle ==
    /\ tree = <<>>
    /\ dest = <<>>
    /\ temp = <<>>
    /\ ar = <<>>
    /\ made = <<>>
    /\ nruns = 0
    /\ nedits = 0

\* The environment composer at rest.
EnvIdle ==
    /\ world = <<>>
    /\ call = <<>>
    /\ nenv = 0

\* No ensure_bootstrapped call made.
BootIdle ==
    /\ bootstrapped = FALSE
    /\ boot = <<>>

SharedInit ==
    /\ platform \in Platforms
    /\ environ = BaseEnviron
    /\ pathIsUnicode = FALSE
    /\ config = InitConfig

LocateInit ==
    /\ files = {}
    /\ ret = NoCall

InitLocate == SharedInit /\ LocateInit /\ ArchiveIdle /\ EnvIdle /\ BootIdle

NextLocate ==
    \/ \E release \in BOOLEAN, dev \in BOOLEAN, android \in BOOLEAN :
           GetBinaryPath(release, dev, android)
    \/ \E release \in BOOLEAN, android \in BOOLEAN : Build(release, android)
    \/ \E p \in files : Remove(p)
    \/ SetCargoTargetDir
    \/ UnsetCargoTargetDir
    \/ \E t \in AndroidTargetInputs : HandleAndroidTarget(t)

SpecLocate == InitLocate /\ [][NextLocate]_vars

(***************************************************************************)
(* The deterministic archiver.                                             *)
(*                                                                         *)
(* A relative path is the sequence of its bytes.  The source directory is  *)
(* `tree`: relative path -> the entry's stat and content.  A file on disk  *)
(* is [present, data], data being the sequence of chunks written to it.    *)
(***************************************************************************)
Dot == 46

Slash == 47

current_dir == <<Dot>>

\* The entries that may exist under the source directory: ./a, ./a/b, ./a/C
Universe == {<<Dot, Slash, 97>>, <<Dot, Slash, 97, Slash, 98>>,
             <<Dot, Slash, 97, Slash, 67>>}

IsDirPath(p) == p \in {current_dir, <<Dot, Slash, 97>>}

\* os.path.join(root, name), both relative
os_path_join(root, name) == root \o <<Slash>> \o name

LastSlash(p) ==
    LET S == {i \in 1..Len(p) : p[i] = Slash}
    IN  CHOOSE i \in S : \A j \in S : j <= i

Parent(p) == SubSeq(p, 1, LastSlash(p) - 1)

BaseName(p) == SubSeq(p, LastSlash(p) + 1, Len(p))

\* The listing orders a directory walk may meet: every order of the entries.
ListingOrders ==
    {o \in [1..Cardinality(Universe) -> Universe] :
        \A i, j \in DOMAIN o : o[i] = o[j] => i = j}

RECURSIVE Flatten(_)
Flatten(ss) == IF ss = <<>> THEN <<>> ELSE Head(ss) \o Flatten(Tail(ss))

\* os.listdir(root), in the order `ord` lists them, split as os.walk does
listdir(t, root, ord) ==
    SelectSeq(ord, LAMBDA p : p \in DOMAIN t /\ p # current_dir /\ Parent(p) = root)

\* The names the loop of lines 88-90 appends while os.walk goes down from
\* root: itertools.chain(dirs, files) of root, then the same below each of
\* dirs, in order.
RECURSIVE os_walk(_, _, _)
os_walk(t, root, ord) ==
    LET names == listdir(t, root, ord)
        dirs == SelectSeq(names, LAMBDA p : t[p].kind = "dir")
        nondirs == SelectSeq(names, LAMBDA p : t[p].kind # "dir")
        joined(s) == [i \in DOMAIN s |-> os_path_join(root, BaseName(s[i]))]
    IN  joined(dirs) \o joined(nondirs)
            \o Flatten([i \in DOMAIN dirs |-> os_walk(t, dirs[i], ord)])

\* Comparison of byte strings, as strcmp does it.
RECURSIVE BytesLess(_, _)
BytesLess(a, b) ==
    IF b = <<>> THEN FALSE
    ELSE IF a = <<>> THEN TRUE
    ELSE IF Head(a) # Head(b) THEN Head(a) < Head(b)
    ELSE BytesLess(Tail(a), Tail(b))

\* The first-level collation key of a language locale: letters only, case
\* folded.
FoldByte(c) == IF c >= 65 /\ c <= 90 THEN c + 32 ELSE c

CollationKey(a) ==
    LET letters == SelectSeq(a, LAMBDA c : c # Dot /\ c # Slash)
    IN  [i \in DOMAIN letters |-> FoldByte(letters[i])]

Locales == {"C", "en_US.UTF-8"}

\* locale.strcoll(a, b) under LC_ALL = loc
strcoll(loc, a, b) ==
    IF a = b THEN 0
    ELSE IF loc = "C"
         THEN IF BytesLess(a, b) THEN -1 ELSE 1
         ELSE IF CollationKey(a) # CollationKey(b)
              THEN IF BytesLess(CollationKey(a), CollationKey(b)) THEN -1 ELSE 1
              ELSE IF BytesLess(a, b) THEN -1 ELSE 1

\* list.sort(cmp=locale.strcoll) with the locale in force
sort_strcoll(list, loc) == SortSeq(list, LAMBDA x, y : strcoll(loc, x, y) < 0)

\* Lines 92-94: the sort happens inside `with setlocale('C')`, whatever the
\* ambient locale of the process is.
sorted_file_list_Ambient(list, ambient) == sort_strcoll(list, ambient)

sorted_file_list(list, ambient) == sort_strcoll(list, "C")

\* Lines 86-90: the root, then everything the walk yields.
walk_file_list(t, ord) == <<current_dir>> \o os_walk(t, current_dir, ord)

NoPrepend == [given |-> FALSE, path |-> <<>>]

Prepend(p) == [given |-> TRUE, path |-> p]

PrependInputs == {NoPrepend, Prepend(<<112>>)}

\* os.path.normpath(os.path.join(prepend_path, entry)) of an entry "." or
\* "./...": the "." goes.
normpath_join(prepend_path, entry) == prepend_path \o Tail(entry)

\* Lines 104-106
arcname(entry, prepend) ==
    IF prepend.given THEN normpath_join(prepend.path, entry) ELSE entry

UserName(uid) == IF uid = 0 THEN "root" ELSE "user"

\* What the output stream is made of: the gzip header, one tar member per
\* entry, the tar end-of-archive blocks, the gzip trailer.
Chunk(t, name, kind, mode, uid, gid, uname, gname, mtime, data) ==
    [t |-> t, name |-> name, kind |-> kind, mode |-> mode, uid |-> uid,
     gid |-> gid, uname |-> uname, gname |-> gname, mtime |-> mtime,
     data |-> data]

Plain(t) == Chunk(t, <<>>, "", 0, 0, 0, "", "", 0, "")

\* gzip.GzipFile('wb', fileobj=out_file, mtime=0): the header carries mtime 0
GzipHeader == Chunk("gzip-header", <<>>, "", 0, 0, 0, "", "", 0, "")

GzipTrailer == Plain("gzip-trailer")

TarEnd == Plain("tar-end")

\* TarFile.gettarinfo(entry, arcname): the member as the entry's stat gives it
gettarinfo(t, entry, name) ==
    Chunk("tar-member", name, t[entry].kind, t[entry].mode, t[entry].uid,
          t[entry].gid, UserName(t[entry].uid), UserName(t[entry].gid),
          t[entry].mtime, t[entry].data)

\* Lines 77-82
reset_KeepMtime(tarinfo) ==
    [tarinfo EXCEPT !.uid = 0, !.gid = 0, !.uname = "root", !.gname = "root"]

reset(tarinfo) ==
    [tarinfo EXCEPT !.uid = 0, !.gid = 0, !.uname = "root", !.gname = "root",
                    !.mtime = 0]

\* Line 107: tar_file.add(entry, filter=reset, recursive=False, arcname=arcname)
tar_member(t, entry, prepend) == reset(gettarinfo(t, entry, arcname(entry, prepend)))

Absent == [present |-> FALSE, data |-> <<>>]

File(data) == [present |-> TRUE, data |-> data]

\* os.open(temp_file, os.O_WRONLY | os.O_CREAT, 0644): the file is created
\* when missing and is not truncated when it exists.
os_open_Truncating(f) == File(<<>>)

os_open(f) == IF f.present THEN f ELSE File(<<>>)

\* A write of one chunk at offset pos of an open file.
write(f, pos, chunk) ==
    File([i \in 1..(IF pos + 1 > Len(f.data) THEN pos + 1 ELSE Len(f.data)) |->
             IF i = pos + 1 THEN chunk ELSE f.data[i]])

\* An entry as first met: owned by the user, mode 0644 or 0755, mtime 1.
Entry(p) ==
    [kind |-> IF IsDirPath(p) THEN "dir" ELSE "file",
     data |-> IF IsDirPath(p) THEN "" ELSE "x",
     mtime |-> 1, uid |-> 1000, gid |-> 1000,
     mode |-> IF IsDirPath(p) THEN 493 ELSE 420]

Trees ==
    {[p \in S \cup {current_dir} |-> Entry(p)] :
        S \in {S \in SUBSET Universe : \A p \in S : Parent(p) \in S \cup {current_dir}}}

\* The entry paths and the file contents of a directory, and nothing else.
Sig(t) == [p \in DOMAIN t |-> [kind |-> t[p].kind, data |-> t[p].data]]

StaleChunk == Plain("stale")

OldArchive == File(<<Plain("old-archive")>>)

StaleTemp == File([i \in 1..MaxStale |-> StaleChunk])

ArIdle == [pc |-> "idle", file_list |-> <<>>, i |-> 0, pos |-> 0,
           prepend |-> NoPrepend, dest0 |-> Absent, out |-> <<>>]

NoMade == [valid |-> FALSE, sig |-> <<>>, prepend |-> NoPrepend]

AtRest == ar.pc \in {"idle", "done", "failed"}

\* Lines 84-94: the call starts, walks the directory and sorts the list.
\* `ord` is the order in which the directories list their entries, `ambient`
\* the locale of the process.
StartArchive(prepend, ord, ambient) ==
    /\ AtRest
    /\ nruns < MaxRuns
    /\ nruns' = nruns + 1
    /\ ar' = [pc |-> "sorted",
              file_list |-> sorted_file_list(walk_file_list(tree, ord), ambient),
              i |-> 1, pos |-> 0, prepend |-> prepend, dest0 |-> dest,
              out |-> <<>>]
    /\ UNCHANGED <<tree, dest, temp, made, nedits>>
    /\ UNCHANGED <<sharedVars, locateVars, envVars, bootVars>>

\* Lines 99-102 if the archive were written at dest_archive itself.
OpenTemp_Direct ==
    /\ ar.pc = "sorted"
    /\ dest' = write(os_open(dest), 0, GzipHeader)
    /\ ar' = [ar EXCEPT !.pc = "writing", !.pos = 1, !.out = <<GzipHeader>>]
    /\ UNCHANGED <<tree, temp, made, nruns, nedits>>
    /\ UNCHANGED <<sharedVars, locateVars, envVars, bootVars>>

\* Lines 99-102: the temporary file is opened, the gzip stream starts (its
\* header is written), the tar stream starts.
OpenTemp ==
    /\ ar.pc = "sorted"
    /\ temp' = write(os_open(temp), 0, GzipHeader)
    /\ ar' = [ar EXCEPT !.pc = "writing", !.pos = 1, !.out = <<GzipHeader>>]
    /\ UNCHANGED <<tree, dest, made, nruns, nedits>>
    /\ UNCHANGED <<sharedVars, locateVars, envVars, bootVars>>

\* Lines 103-107: one turn of the loop.
AddEntry ==
    /\ ar.pc = "writing"
    /\ ar.i <= Len(ar.file_list)
    /\ LET member == tar_member(tree, ar.file_list[ar.i], ar.prepend)
       IN  /\ temp' = write(temp, ar.pos, member)
           /\ ar' = [ar EXCEPT !.i = @ + 1, !.pos = @ + 1,
                               !.out = Append(@, member)]
    /\ UNCHANGED <<tree, dest, made, nruns, nedits>>
    /\ UNCHANGED <<sharedVars, locateVars, envVars, bootVars>>

\* The three `with` blocks end: the tar stream is closed (end-of-archive
\* blocks), the gzip stream is closed (trailer), the file is closed.
CloseArchive ==
    /\ ar.pc = "writing"
    /\ ar.i > Len(ar.file_list)
    /\ temp' = write(write(temp, ar.pos, TarEnd), ar.pos + 1, GzipTrailer)
    /\ ar' = [ar EXCEPT !.pc = "closed", !.pos = @ + 2,
                        !.out = @ \o <<TarEnd, GzipTrailer>>]
    /\ UNCHANGED <<tree, dest, made, nruns, nedits>>
    /\ UNCHANGED <<sharedVars, locateVars, envVars, bootVars>>

\* Line 108: os.rename(temp_file, dest_archive)
Rename ==
    /\ ar.pc = "closed"
    /\ dest' = temp
    /\ temp' = Absent
    /\ ar' = [ArIdle EXCEPT !.pc = "done", !.out = ar.out, !.dest0 = ar.dest0]
    /\ made' = [valid |-> TRUE, sig |-> Sig(tree), prepend |-> ar.prepend]
    /\ UNCHANGED <<tree, nruns, nedits>>
    /\ UNCHANGED <<sharedVars, locateVars, envVars, bootVars>>

\* A step raises (the open, an add, a close or the rename fails) and the
\* exception leaves the `with` blocks and the call.  When the gzip stream is
\* open, GzipFile.__exit__ closes it, which writes its trailer.
Fail ==
    /\ ar.pc \in {"sorted", "writing", "closed"}
    /\ temp' = IF ar.pc = "writing" THEN write(temp, ar.pos, GzipTrailer) ELSE temp
    /\ ar' = [ArIdle EXCEPT !.pc = "failed", !.dest0 = ar.dest0]
    /\ UNCHANGED <<tree, dest, made, nruns, nedits>>
    /\ UNCHANGED <<sharedVars, locateVars, envVars, bootVars>>

\* Changes to the directory between two calls.
Edit(t) ==
    /\ AtRest
    /\ nedits < MaxEdits
    /\ nedits' = nedits + 1
    /\ tree' = t
    /\ ar' = ArIdle
    /\ UNCHANGED <<dest, temp, made, nruns>>
    /\ UNCHANGED <<sharedVars, locateVars, envVars, bootVars>>

\* find . -exec touch {} +
Touch == Edit([q \in DOMAIN tree |-> [tree[q] EXCEPT !.mtime = @ + 1]])

\* chown -R, to root and back
Chown == Edit([q \in DOMAIN tree |->
                 [tree[q] EXCEPT !.uid = 1000 - @, !.gid = 1000 - @]])

\* chmod -R, group and others losing or gaining their bits
Chmod == Edit([q \in DOMAIN tree |->
                 [tree[q] EXCEPT !.mode = IF @ \in {420, 493} THEN @ - 36 ELSE @ + 36]])

WriteFile(p) ==
    /\ tree[p].kind = "file"
    /\ Edit([tree EXCEPT ![p].data = IF @ = "x" THEN "y" ELSE "x"])

Unlink(p) ==
    /\ p # current_dir
    /\ \A q \in DOMAIN tree : q # current_dir => Parent(q) # p
    /\ Edit([q \in DOMAIN tree \ {p} |-> tree[q]])

Create(p) ==
    /\ p \notin DOMAIN tree
    /\ Parent(p) \in DOMAIN tree
    /\ Edit([q \in DOMAIN tree \cup {p} |-> IF q = p THEN Entry(p) ELSE tree[q]])

ArchiveInit ==
    /\ tree \in Trees
    /\ dest \in {Absent, OldArchive}
    /\ temp \in {Absent, StaleTemp}
    /\ ar = ArIdle
    /\ made = NoMade
    /\ nruns = 0
    /\ nedits = 0

\* The other two at rest, for the specification of the archiver.
SharedIdle ==
    /\ platform = "linux2"
    /\ environ = BaseEnviron
    /\ pathIsUnicode = FALSE
    /\ config = InitConfig

InitArchive == SharedIdle /\ LocateInit /\ ArchiveInit /\ EnvIdle /\ BootIdle

NextArchive ==
    \/ \E prepend \in PrependInputs, ord \in ListingOrders, ambient \in Locales :
           StartArchive(prepend, ord, ambient)
    \/ OpenTemp
    \/ AddEntry
    \/ CloseArchive
    \/ Rename
    \/ Fail
    \/ Touch
    \/ Chown
    \/ Chmod
    \/ \E p \in DOMAIN tree : WriteFile(p)
    \/ \E p \in DOMAIN tree : Unlink(p)
    \/ \E p \in Universe : Create(p)

SpecArchive == InitArchive /\ [][NextArchive]_vars

(***************************************************************************)
(* The environment composer.                                               *)
(*                                                                         *)
(* build_env works on `e`, a record of env (the dictionary it returns) and *)
(* written (the keys it has assigned so far).                              *)
(***************************************************************************)
Set(e, k, v) == [env |-> Put(e.env, k, v), written |-> e.written \cup {k}]

\* servo.util.host_triple() of the machine
host_triple ==
    IF platform = "win32" THEN "x86_64-pc-windows-msvc"
    ELSE IF platform = "darwin" THEN "x86_64-apple-darwin"
    ELSE "x86_64-unknown-linux-gnu"

\* The target argument: "" stands for None.
TargetInputs == {"", "armv7-linux-androideabi", "i686-pc-windows-msvc"}

\* "msvc" in triple
HasMsvc(triple) == triple \in {"x86_64-pc-windows-msvc", "i686-pc-windows-msvc"}

\* "x86_64" in triple
HasX86_64(triple) ==
    triple \in {"x86_64-pc-windows-msvc", "x86_64-apple-darwin",
                "x86_64-unknown-linux-gnu"}

\* target.startswith('arm') or target.startswith('aarch64')
IsArm(target) ==
    target \in {"armv7-linux-androideabi", "arm-linux-androideabi",
                "aarch64-linux-android"}

pathsep == IF platform = "win32" THEN ";" ELSE ":"

sharedir == PathJoin(topdir, ".servo")

sys_executable == <<"python">>

\* servo.packages.WINDOWS_MSVC[package]
msvc_deps(package) == package \o "-version"

package_dir(package) ==
    PathJoin(PathJoin(PathJoin(sharedir, "msvc-dependencies"), package),
             msvc_deps(package))

NonAscii == {"U+00E9"}

\* value.encode('ascii', 'ignore')
encode_ascii_ignore(value) == SelectSeq(value, LAMBDA c : c \notin NonAscii)

\* os.pathsep.join(paths)
RECURSIVE pathsep_join(_)
pathsep_join(paths) ==
    IF paths = <<>> THEN <<>>
    ELSE IF Len(paths) = 1 THEN Head(paths)
    ELSE Head(paths) \o <<pathsep>> \o pathsep_join(Tail(paths))

\* Line 462
environ_copy_Empty(osenv) == [k \in {} |-> <<>>]

environ_copy(osenv) == osenv

\* Lines 463-470
win32_path_rule(e, uni) ==
    IF is_windows /\ uni
    THEN Set(e, "PATH", encode_ascii_ignore(e.env["PATH"]))
    ELSE e

triple_of(a) == IF a.target # "" THEN a.target ELSE host_triple

\* Lines 471, 480-482
extra_path_of(a) ==
    IF HasMsvc(triple_of(a))
    THEN <<PathJoin(package_dir("cmake"), "bin"),
           PathJoin(package_dir("llvm"), "bin"),
           PathJoin(package_dir("ninja"), "bin")>>
    ELSE <<>>

\* Line 472: nothing is ever added to extra_lib
extra_lib == <<>>

\* Lines 473-490
msvc_rule(e, a) ==
    IF HasMsvc(triple_of(a))
    THEN LET msvc_x64 == IF HasX86_64(triple_of(a)) THEN "64" ELSE ""
             e1 == Set(e, "OPENSSL_INCLUDE_DIR", PathJoin(package_dir("openssl"), "include"))
             e2 == Set(e1, "OPENSSL_LIB_DIR", PathJoin(package_dir("openssl"), "lib" \o msvc_x64))
             e3 == Set(e2, "OPENSSL_LIBS", <<"libsslMD:libcryptoMD">>)
             e4 == Set(e3, "MOZTOOLS_PATH", PathJoin(package_dir("moztools"), "bin"))
         IN  Set(e4, "LIBCLANG_PATH", PathJoin(package_dir("llvm"), "lib"))
    ELSE e

\* Lines 492-496 without the look at os.environ
windows_rule_Always(e, osenv) ==
    IF is_windows
    THEN Set(Set(e, "NATIVE_WIN32_PYTHON", sys_executable),
             "HARFBUZZ_SYS_NO_PKG_CONFIG", <<"true">>)
    ELSE e

\* Lines 492-496: os.environ is asked, not env
windows_rule(e, osenv) ==
    IF is_windows
    THEN LET e1 == IF Get(osenv, "NATIVE_WIN32_PYTHON", <<>>) = <<>>
                   THEN Set(e, "NATIVE_WIN32_PYTHON", sys_executable)
                   ELSE e
         IN  Set(e1, "HARFBUZZ_SYS_NO_PKG_CONFIG", <<"true">>)
    ELSE e

\* Lines 498-499
path_rule_Replace(e, a) ==
    IF extra_path_of(a) # <<>>
    THEN Set(e, "PATH", pathsep_join(extra_path_of(a)))
    ELSE e

path_rule(e, a) ==
    IF extra_path_of(a) # <<>>
    THEN Set(e, "PATH", pathsep_join(extra_path_of(a)) \o <<pathsep>> \o e.env["PATH"])
    ELSE e

\* Lines 501-504
incremental_rule_NoneIsFalse(e, cfg) ==
    IF cfg.incremental = "True"
    THEN Set(e, "CARGO_INCREMENTAL", <<"1">>)
    ELSE Set(e, "CARGO_INCREMENTAL", <<"0">>)

incremental_rule_Unset(e, cfg) ==
    IF cfg.incremental = "True"
    THEN Set(e, "CARGO_INCREMENTAL", <<"1">>)
    ELSE IF cfg.incremental # "None"
         THEN Set(e, "CARGO_INCREMENTAL", <<"0">>)
         ELSE [env |-> Del(e.env, "CARGO_INCREMENTAL"), written |-> e.written]

incremental_rule(e, cfg) ==
    IF cfg.incremental = "True"
    THEN Set(e, "CARGO_INCREMENTAL", <<"1">>)
    ELSE IF cfg.incremental # "None"
         THEN Set(e, "CARGO_INCREMENTAL", <<"0">>)
         ELSE e

\* Lines 506-516
extra_lib_rule(e) ==
    IF extra_lib # <<>>
    THEN LET k == IF platform = "darwin" THEN "DYLD_LIBRARY_PATH" ELSE "LD_LIBRARY_PATH"
         IN  Set(e, k, pathsep_join(extra_lib) \o <<pathsep>> \o Get(e.env, k, <<>>))
    ELSE e

SetIf(e, cond, k, v) == IF cond THEN Set(e, k, v) ELSE e

\* Lines 518-526
android_rule(e, cfg) ==
    LET e1 == SetIf(e, cfg.android_sdk # <<>>, "ANDROID_SDK", cfg.android_sdk)
        e2 == SetIf(e1, cfg.android_ndk # <<>>, "ANDROID_NDK", cfg.android_ndk)
        e3 == SetIf(e2, cfg.android_toolchain # <<>>, "ANDROID_TOOLCHAIN",
                    cfg.android_toolchain)
    IN  SetIf(e3, cfg.android_platform # "", "ANDROID_PLATFORM", <<cfg.android_platform>>)

\* Lines 533-538: whatever env holds under the first name goes under the other
Alias(e, from, to) == IF Has(e.env, from) THEN Set(e, to, e.env[from]) ELSE e

android_alias_rule(e) ==
    Alias(Alias(Alias(e, "ANDROID_SDK", "ANDROID_HOME"),
                "ANDROID_NDK", "NDK_HOME"),
          "ANDROID_TOOLCHAIN", "NDK_STANDALONE")

\* Lines 540-541
hosts_rule(e, a) == SetIf(e, a.hosts_file_path # <<>>, "HOST_FILE", a.hosts_file_path)

\* Lines 543-546
rustdoc_rule(e, a) ==
    SetIf(e, ~a.test_unit, "RUSTDOC",
          PathJoin(PathJoin(topdir, "etc"), "rustdoc-with-private"))

\* env['RUSTFLAGS'] = env.get('RUSTFLAGS', "") + flag
AppendFlag(e, flag) == Set(e, "RUSTFLAGS", Get(e.env, "RUSTFLAGS", <<>>) \o flag)

\* Lines 548-549
rustflags_rule_Replace(e, cfg) ==
    IF cfg.rustflags # <<>> THEN Set(e, "RUSTFLAGS", <<" ">> \o cfg.rustflags) ELSE e

rustflags_rule(e, cfg) ==
    IF cfg.rustflags # <<>> THEN AppendFlag(e, <<" ">> \o cfg.rustflags) ELSE e

\* Lines 551-554
gold_rule(e, cfg, w) ==
    IF cfg.rustc_with_gold /\ platform # "win32" /\ w.ld_gold
    THEN AppendFlag(e, <<" -C link-args=-fuse-ld=gold">>)
    ELSE e

\* Lines 556-557
ccache_rule_Append(e, cfg) ==
    SetIf(e, cfg.ccache # <<>>, "CCACHE", Get(e.env, "CCACHE", <<>>) \o cfg.ccache)

ccache_rule(e, cfg) == SetIf(e, cfg.ccache # <<>>, "CCACHE", cfg.ccache)

\* Lines 559-562
neon_rule(e, a) ==
    IF a.target # "" /\ IsArm(a.target)
    THEN AppendFlag(e, <<" -C target-feature=+neon">>)
    ELSE e

\* Line 564
lint_rule(e) == AppendFlag(e, <<" -W unused-extern-crates">>)

git_sha == "0a1b2c3"

\* Lines 566-580
git_rule(e, a, w) ==
    LET git_info == IF w.git # "none" /\ a.is_build
                    THEN <<"", git_sha>> \o (IF w.git = "dirty" THEN <<"dirty">> ELSE <<>>)
                    ELSE <<>>
        dash_join == IF git_info = <<>> THEN <<>>
                     ELSE IF Len(git_info) = 2 THEN <<"", "-", git_sha>>
                     ELSE <<"", "-", git_sha, "-", "dirty">>
    IN  Set(e, "GIT_INFO", dash_join)

\* Lines 582-583, were the flag put in front of the others.
thinlto_rule_InFront(e, cfg) ==
    IF cfg.thinlto
    THEN Set(e, "RUSTFLAGS", <<" -Z thinlto">> \o e.env["RUSTFLAGS"])
    ELSE e

\* Lines 582-583
thinlto_rule(e, cfg) ==
    IF cfg.thinlto
    THEN Set(e, "RUSTFLAGS", e.env["RUSTFLAGS"] \o <<" -Z thinlto">>)
    ELSE e

\* env['PATH'] of a process without PATH: line 463 on win32, line 499 with
\* extra_path
raises_KeyError(osenv, a) ==
    ~Has(osenv, "PATH") /\ (is_windows \/ extra_path_of(a) # <<>>)

\* The rules in the order of the code.
compose(osenv, uni, cfg, w, a) ==
    LET e0 == [env |-> environ_copy(osenv), written |-> {}]
        e1 == win32_path_rule(e0, uni)
        e2 == msvc_rule(e1, a)
        e3 == windows_rule(e2, osenv)
        e4 == path_rule(e3, a)
        e5 == incremental_rule(e4, cfg)
        e6 == extra_lib_rule(e5)
        e7 == android_rule(e6, cfg)
        e8 == android_alias_rule(e7)
        e9 == hosts_rule(e8, a)
        e10 == rustdoc_rule(e9, a)
        e11 == rustflags_rule(e10, cfg)
        e12 == gold_rule(e11, cfg, w)
        e13 == ccache_rule(e12, cfg)
        e14 == neon_rule(e13, a)
        e15 == lint_rule(e14)
        e16 == git_rule(e15, a, w)
    IN  thinlto_rule(e16, cfg)

NoResult == [kind |-> "none", env |-> <<>>, written |-> {}]

build_env(osenv, uni, cfg, w, a) ==
    IF raises_KeyError(osenv, a)
    THEN [kind |-> "raise", env |-> <<>>, written |-> {}]
    ELSE LET e == compose(osenv, uni, cfg, w, a)
         IN  [kind |-> "return", env |-> e.env, written |-> e.written]

Args == [hosts_file_path : {<<>>, <<"hosts">>}, target : TargetInputs,
         is_build : BOOLEAN, test_unit : BOOLEAN]

NoEnvCall == [called |-> FALSE,
              a |-> [hosts_file_path |-> <<>>, target |-> "", is_build |-> FALSE,
                     test_unit |-> FALSE],
              res |-> NoResult]

\* One call of build_env, made when the result of the last one is used up
\* (any change to the environment or the configuration drops it).
BuildEnv(a) ==
    /\ ~call.called
    /\ call' = [called |-> TRUE, a |-> a,
                res |-> build_env(environ, pathIsUnicode, config, world, a)]
    /\ UNCHANGED <<sharedVars, world, nenv, locateVars, archiveVars, bootVars>>

\* What the user may put in the environment before running mach: name,
\* value, and whether the value is a unicode string.
EnvInputs ==
    {<<"PATH", <<"/usr", "U+00E9">>, TRUE>>,
     <<"PATH", <<"/usr", "U+00E9">>, FALSE>>,
     <<"RUSTFLAGS", <<"-g">>, FALSE>>,
     <<"CARGO_INCREMENTAL", <<"old">>, FALSE>>,
     <<"ANDROID_SDK", <<"/env/sdk">>, FALSE>>,
     <<"ANDROID_SDK", <<"/env/sdk2">>, FALSE>>,
     <<"ANDROID_NDK", <<"/env/ndk">>, FALSE>>,
     <<"ANDROID_TOOLCHAIN", <<"/env/toolchain">>, FALSE>>,
     <<"ANDROID_HOME", <<"/env/home">>, FALSE>>,
     <<"NATIVE_WIN32_PYTHON", <<>>, FALSE>>,
     <<"NATIVE_WIN32_PYTHON", <<"py">>, FALSE>>}

UnicodeAfterPut(k, u, was) == IF k = "PATH" THEN u ELSE was

EnvEdit ==
    /\ nenv < MaxEnvEdits
    /\ nenv' = nenv + 1
    /\ call' = NoEnvCall
    /\ UNCHANGED <<platform, locateVars, archiveVars, bootVars>>

Putenv(k, v, u) ==
    /\ EnvEdit
    /\ environ' = Put(environ, k, v)
    /\ environ' # environ \/ pathIsUnicode # UnicodeAfterPut(k, u, pathIsUnicode)
    /\ pathIsUnicode' = UnicodeAfterPut(k, u, pathIsUnicode)
    /\ UNCHANGED <<config, world>>

Unsetenv(k) ==
    /\ EnvEdit
    /\ environ' = Del(environ, k)
    /\ pathIsUnicode' = UnicodeAfterPut(k, FALSE, pathIsUnicode)
    /\ UNCHANGED <<config, world>>

\* What .servobuild may set: key and value.
ConfigInputs ==
    {<<"incremental", "True">>, <<"incremental", "False">>,
     <<"rustflags", <<"-O">>>>, <<"thinlto", TRUE>>,
     <<"rustc_with_gold", FALSE>>, <<"ccache", <<"ccache">>>>,
     <<"android_sdk", <<"/cfg/sdk">>>>, <<"android_ndk", <<"/cfg/ndk">>>>,
     <<"android_toolchain", <<"/cfg/toolchain">>>>}

\* CommandBase.__init__ reads a .servobuild with one more key in it.
LoadConfig(key, val) ==
    /\ EnvEdit
    /\ config[key] = ConfigDefaults[key]
    /\ config' = [config EXCEPT ![key] = val]
    /\ UNCHANGED <<environ, pathIsUnicode, world>>

\* ld.gold is installed; the top directory becomes a git checkout; the
\* checkout gets uncommitted changes.
InstallGold ==
    /\ EnvEdit
    /\ ~world.ld_gold
    /\ world' = [world EXCEPT !.ld_gold = TRUE]
    /\ UNCHANGED <<environ, pathIsUnicode, config>>

GitInit ==
    /\ EnvEdit
    /\ world.git = "none"
    /\ world' = [world EXCEPT !.git = "clean"]
    /\ UNCHANGED <<environ, pathIsUnicode, config>>

GitModify ==
    /\ EnvEdit
    /\ world.git = "clean"
    /\ world' = [world EXCEPT !.git = "dirty"]
    /\ UNCHANGED <<environ, pathIsUnicode, config>>

EnvInit ==
    /\ world = [ld_gold |-> FALSE, git |-> "none"]
    /\ call = NoEnvCall
    /\ nenv = 0

InitEnv == SharedInit /\ LocateInit /\ ArchiveIdle /\ EnvInit /\ BootIdle

NextEnv ==
    \/ \E a \in Args : BuildEnv(a)
    \/ \E i \in EnvInputs : Putenv(i[1], i[2], i[3])
    \/ \E k \in DOMAIN environ : Unsetenv(k)
    \/ \E c \in ConfigInputs : LoadConfig(c[1], c[2])
    \/ InstallGold
    \/ GitInit
    \/ GitModify

SpecEnv == InitEnv /\ [][NextEnv]_vars

(***************************************************************************)
(* The bootstrap guard.                                                    *)
(*                                                                         *)
(* One mach context, the CommandBase instances made over it and their      *)
(* ensure_bootstrapped calls.  `boot` counts the calls made, the instances *)
(* constructed, the bootstrap dispatches begun and those that returned,    *)
(* and remembers whether a call has returned normally.                     *)
(***************************************************************************)
\* Lines 245-246: context.bootstrapped after CommandBase.__init__, were it
\* set without a look at hasattr.
init_bootstrapped_Reset(hasattr, value) == FALSE

init_bootstrapped(hasattr, value) == IF ~hasattr THEN FALSE ELSE value

\* Line 648
target_platform(target) == IF target # "" THEN target ELSE host_triple

NoBoot == [pc |-> "idle", target |-> "", calls |-> 0, instances |-> 1,
           dispatched |-> 0, completed |-> 0, returned |-> FALSE]

\* CommandBase.__init__ of one more command over the same context (mach
\* makes one instance per command it dispatches).
NewCommandBase ==
    /\ boot.instances < MaxInstances
    /\ bootstrapped' = init_bootstrapped(TRUE, bootstrapped)
    /\ boot' = [boot EXCEPT !.instances = @ + 1]
    /\ UNCHANGED <<sharedVars, locateVars, archiveVars, envVars>>

\* Lines 644-654 up to the return or to the dispatch of line 652.
EnsureBootstrapped(target) ==
    /\ boot.pc # "dispatching"
    /\ boot.calls < MaxBootCalls
    /\ IF bootstrapped
       THEN /\ boot' = [boot EXCEPT !.pc = "returned", !.target = target,
                                     !.calls = @ + 1, !.returned = TRUE]
            /\ UNCHANGED bootstrapped
       ELSE IF HasMsvc(target_platform(target))
            THEN /\ boot' = [boot EXCEPT !.pc = "dispatching", !.target = target,
                                          !.calls = @ + 1, !.dispatched = @ + 1]
                 /\ UNCHANGED bootstrapped
            ELSE /\ boot' = [boot EXCEPT !.pc = "returned", !.target = target,
                                          !.calls = @ + 1, !.returned = TRUE]
                 /\ bootstrapped' = TRUE
    /\ UNCHANGED <<sharedVars, locateVars, archiveVars, envVars>>

\* Registrar.dispatch returns (whatever its value, which line 652 drops):
\* line 654 runs and the call returns.
DispatchReturns ==
    /\ boot.pc = "dispatching"
    /\ bootstrapped' = TRUE
    /\ boot' = [boot EXCEPT !.pc = "returned", !.completed = @ + 1,
                            !.returned = TRUE]
    /\ UNCHANGED <<sharedVars, locateVars, archiveVars, envVars>>

\* Registrar.dispatch raises: the exception leaves the call before line 654.
DispatchRaises ==
    /\ boot.pc = "dispatching"
    /\ boot' = [boot EXCEPT !.pc = "raised"]
    /\ UNCHANGED bootstrapped
    /\ UNCHANGED <<sharedVars, locateVars, archiveVars, envVars>>

BootInit ==
    /\ bootstrapped = init_bootstrapped(FALSE, FALSE)
    /\ boot = NoBoot

InitBoot == SharedInit /\ LocateInit /\ ArchiveIdle /\ EnvIdle /\ BootInit

NextBoot ==
    \/ NewCommandBase
    \/ \E target \in TargetInputs : EnsureBootstrapped(target)
    \/ DispatchReturns
    \/ DispatchRaises

SpecBoot == InitBoot /\ [][NextBoot]_vars

(***************************************************************************)
(* Claims about get_binary_path.                                           *)
(***************************************************************************)
RelEx == exists(release_path(ret.android))

DevEx == exists(dev_path(ret.android))

\* The preference in effect: release wins when both flags are given.
WantsRelease == ret.release

WantsDev == ret.dev /\ ~ret.release

\* C1 (as stated): whenever exactly one of the two profile binaries exists,
\* the call returns the path of the one that exists, whatever the flags.
C1_Original ==
    (ret.called /\ RelEx # DevEx) =>
        ret.out = Returned(IF RelEx THEN release_path(ret.android)
                                    ELSE dev_path(ret.android))

\* C1 (amended): whenever exactly one of the two profile binaries exists, the
\* call returns the path of the one that exists unless the preference in
\* effect names the missing profile; then the call exits the process and
\* returns nothing.
C1_OneBuilt ==
    (ret.called /\ RelEx # DevEx) =>
        IF (WantsRelease /\ ~RelEx) \/ (WantsDev /\ ~DevEx)
        THEN ret.out = Exited
        ELSE ret.out = Returned(IF RelEx THEN release_path(ret.android)
                                         ELSE dev_path(ret.android))

C1_Witness ==
    /\ ret.called /\ RelEx /\ ~DevEx
    /\ ret.dev /\ ~ret.release
    /\ ret.out = Exited

\* C2: when neither the release nor the debug binary exists the call raises
\* BuildNotFound, whatever the release, dev and android flags.
C2_NotFound ==
    (ret.called /\ ~RelEx /\ ~DevEx) => ret.out = Raised("BuildNotFound")

C2_Witness ==
    /\ ret.called /\ ~RelEx /\ ~DevEx
    /\ ret.android /\ ret.release /\ ret.dev
    /\ files # {}
    /\ ret.out.kind = "raise"

\* C8: with both flags set release wins: the outcome is the one of
\* release=True, dev=False, and the debug path is never returned.
C8_ReleaseWins ==
    (ret.called /\ ret.release /\ ret.dev) =>
        /\ ret.out = select(TRUE, FALSE, ret.android)
        /\ ret.out # Returned(dev_path(ret.android))
        /\ RelEx => ret.out = Returned(release_path(ret.android))
        /\ (~RelEx /\ DevEx) => ret.out = Exited

C8_Witness ==
    /\ ret.called /\ ret.release /\ ret.dev
    /\ RelEx /\ DevEx
    /\ ret.out = Returned(release_path(ret.android))

\* C9: with both profile binaries built and neither flag set the call exits
\* the process and returns no path.
C9_Ambiguous ==
    (ret.called /\ ~ret.release /\ ~ret.dev /\ RelEx /\ DevEx) =>
        ret.out = Exited

C9_Witness ==
    /\ ret.called /\ ~ret.release /\ ~ret.dev /\ RelEx /\ DevEx
    /\ ret.out.kind = "exit"

(***************************************************************************)
(* Claims about archive_deterministically.                                 *)
(***************************************************************************)
\* C3: until the rename the file at the destination path is what it was
\* before the call, so a call that fails before the rename leaves it as it
\* was (absent stays absent, existing content unchanged); the destination is
\* changed by the rename only.
C3_DestUntouched ==
    ar.pc \in {"sorted", "writing", "closed", "failed"} => dest = ar.dest0

C3_Witness ==
    /\ ar.pc = "failed"
    /\ temp.present /\ Len(temp.data) > 2 /\ temp.data[2].t = "tar-member"
    /\ dest = OldArchive

\* C4: two successful invocations over source trees with the same entry
\* paths and the same file contents (and the same prepend_path) produce the
\* same bytes at the destination: a rename that replaces an archive made
\* from such a tree leaves the destination's content as it was.
C4_Deterministic ==
    [][(ar.pc = "closed" /\ ar'.pc = "done" /\ made.valid
            /\ made.sig = Sig(tree) /\ made.prepend = ar.prepend)
        => dest' = dest]_vars

(***************************************************************************)
(* Claims about build_env.                                                 *)
(***************************************************************************)
Ret == call.called /\ call.res.kind = "return"

Out == call.res.env

Written == call.res.written

IsPrefix(p, q) == Len(p) <= Len(q) /\ SubSeq(q, 1, Len(p)) = p

IsSuffix(p, q) == Len(p) <= Len(q) /\ SubSeq(q, Len(q) - Len(p) + 1, Len(q)) = p

\* C5: with build.incremental None the call does not write
\* CARGO_INCREMENTAL (the result has it as the process environment had it,
\* absent or with its old value); with False the result has "0", with True
\* "1".
C5_Incremental ==
    Ret =>
        /\ config.incremental = "None" =>
              /\ "CARGO_INCREMENTAL" \notin Written
              /\ Has(Out, "CARGO_INCREMENTAL") = Has(environ, "CARGO_INCREMENTAL")
              /\ Has(environ, "CARGO_INCREMENTAL") =>
                     Out["CARGO_INCREMENTAL"] = environ["CARGO_INCREMENTAL"]
        /\ config.incremental = "False" =>
              Has(Out, "CARGO_INCREMENTAL") /\ Out["CARGO_INCREMENTAL"] = <<"0">>
        /\ config.incremental = "True" =>
              Has(Out, "CARGO_INCREMENTAL") /\ Out["CARGO_INCREMENTAL"] = <<"1">>

C5_Witness ==
    /\ Ret
    /\ config.incremental = "None"
    /\ Has(environ, "CARGO_INCREMENTAL")
    /\ Out["CARGO_INCREMENTAL"] = <<"old">>

\* C6 (as stated): a RUSTFLAGS of the process environment is a prefix of the
\* returned RUSTFLAGS, and a PATH that the call changes keeps the original
\* PATH as its suffix.
C6_Original ==
    Ret =>
        /\ Has(environ, "RUSTFLAGS") => IsPrefix(environ["RUSTFLAGS"], Out["RUSTFLAGS"])
        /\ (Has(environ, "PATH") /\ Out["PATH"] # environ["PATH"]) =>
               IsSuffix(environ["PATH"], Out["PATH"])

\* The PATH the rules start from: on win32 a unicode PATH is encoded to
\* ASCII first, its other characters dropped.
PathAsEncoded ==
    IF is_windows /\ pathIsUnicode
    THEN encode_ascii_ignore(environ["PATH"])
    ELSE environ["PATH"]

\* C6 (amended): a RUSTFLAGS of the process environment is a prefix of the
\* returned RUSTFLAGS; the returned PATH ends with the original PATH, which
\* on win32, when it is a unicode string, has first lost its non-ASCII
\* characters.
C6_Appends ==
    Ret =>
        /\ Has(environ, "RUSTFLAGS") => IsPrefix(environ["RUSTFLAGS"], Out["RUSTFLAGS"])
        /\ Has(environ, "PATH") => IsSuffix(PathAsEncoded, Out["PATH"])

C6_Witness ==
    /\ Ret
    /\ is_windows /\ pathIsUnicode
    /\ Has(environ, "RUSTFLAGS") /\ Out["RUSTFLAGS"] # environ["RUSTFLAGS"]
    /\ Len(Out["PATH"]) > Len(environ["PATH"])
    /\ ~IsSuffix(environ["PATH"], Out["PATH"])

FlagVars == {"RUSTFLAGS", "PATH", "LD_LIBRARY_PATH", "DYLD_LIBRARY_PATH"}

\* The process environments that differ from the present one in one
\* variable.
AltEnvirons ==
    {[env |-> Put(environ, i[1], i[2]),
      uni |-> UnicodeAfterPut(i[1], i[3], pathIsUnicode)] : i \in EnvInputs}
    \cup {[env |-> Del(environ, k),
           uni |-> UnicodeAfterPut(k, FALSE, pathIsUnicode)] : k \in DOMAIN environ}

SameCallIn(alt) == build_env(alt.env, alt.uni, config, world, call.a)

\* C7 (as stated): the value a rule writes to a variable other than the
\* flag-style ones is the same for two process environments.
C7_Original ==
    Ret =>
        \A alt \in AltEnvirons :
            LET other == SameCallIn(alt)
            IN  other.kind = "return" =>
                    \A k \in (Written \cap other.written) \ FlagVars :
                        Out[k] = other.env[k]

Aliases == {<<"ANDROID_SDK", "ANDROID_HOME">>, <<"ANDROID_NDK", "NDK_HOME">>,
            <<"ANDROID_TOOLCHAIN", "NDK_STANDALONE">>}

AliasVars == {al[2] : al \in Aliases}

\* C7 (amended): apart from the flag-style variables, the rules that read
\* the environment are the three alias rules, which set ANDROID_HOME,
\* NDK_HOME and NDK_STANDALONE to what env holds under ANDROID_SDK,
\* ANDROID_NDK and ANDROID_TOOLCHAIN (from the process environment or from
\* the earlier rule), and the win32 rule, which sets NATIVE_WIN32_PYTHON
\* only when the process environment has none; the value written to any
\* other variable is the same for two process environments.
C7_Coupling ==
    Ret =>
        /\ \A alt \in AltEnvirons :
               LET other == SameCallIn(alt)
               IN  other.kind = "return" =>
                       \A k \in (Written \cap other.written)
                                    \ (FlagVars \cup AliasVars) :
                           Out[k] = other.env[k]
        /\ \A al \in Aliases :
               /\ al[2] \in Written <=> Has(Out, al[1])
               /\ al[2] \in Written => Out[al[2]] = Out[al[1]]
        /\ "NATIVE_WIN32_PYTHON" \in Written <=>
               (is_windows /\ Get(environ, "NATIVE_WIN32_PYTHON", <<>>) = <<>>)

C7_Witness ==
    /\ Ret
    /\ config.android_sdk = <<>>
    /\ Has(environ, "ANDROID_SDK")
    /\ "ANDROID_SDK" \notin Written
    /\ "ANDROID_HOME" \in Written
    /\ Out["ANDROID_HOME"] = environ["ANDROID_SDK"]

\* C10: every variable of the process environment is in the returned
\* environment, and every variable that no rule writes keeps its value.
C10_NoDeletion ==
    Ret =>
        \A k \in DOMAIN environ :
            /\ Has(Out, k)
            /\ k \notin Written => Out[k] = environ[k]

C10_Witness ==
    /\ Ret
    /\ Has(environ, "CARGO_INCREMENTAL") /\ "CARGO_INCREMENTAL" \notin Written
    /\ Out["CARGO_INCREMENTAL"] = environ["CARGO_INCREMENTAL"]
    /\ "PATH" \in Written
    /\ Out["HOME"] = environ["HOME"]

(***************************************************************************)
(* Claims about the order of the archive's entries.                        *)
(***************************************************************************)
Running == ar.pc \in {"sorted", "writing", "closed"}

\* The tar members written so far by the call in progress.
Members == SelectSeq(ar.out, LAMBDA c : c.t = "tar-member")

\* p is an entry beneath the directory d.
Beneath(p, d) ==
    /\ Len(p) > Len(d) + 1
    /\ SubSeq(p, 1, Len(d)) = d
    /\ p[Len(d) + 1] = Slash

\* C11: the list the call adds from holds the root and every entry of the
\* source directory, each once, in ascending byte-wise order, whatever order
\* the walk lists the directories in and whatever the locale of the process
\* is; the root is first and a directory comes before every entry beneath
\* it; the members are added in the order of that list, one per entry.
C11_SortedEntries ==
    Running =>
        /\ {ar.file_list[i] : i \in DOMAIN ar.file_list} = DOMAIN tree
        /\ Len(ar.file_list) = Cardinality(DOMAIN tree)
        /\ \A i, j \in DOMAIN ar.file_list :
               i < j => BytesLess(ar.file_list[i], ar.file_list[j])
        /\ ar.file_list[1] = current_dir
        /\ \A i, j \in DOMAIN ar.file_list :
               Beneath(ar.file_list[j], ar.file_list[i]) => i < j
        /\ ar.pc = "sorted" =>
               \A ord \in ListingOrders, ambient \in Locales :
                   sorted_file_list(walk_file_list(tree, ord), ambient) = ar.file_list
        /\ ar.pc = "closed" => Len(Members) = Len(ar.file_list)
        /\ \A i \in DOMAIN Members :
               Members[i].name = arcname(ar.file_list[i], ar.prepend)

C11_Witness ==
    /\ ar.pc = "closed"
    /\ DOMAIN tree = Universe \cup {current_dir}
    /\ Len(Members) = 4
    /\ Members[3].name = <<Dot, Slash, 97, Slash, 67>>
    /\ Members[4].name = <<Dot, Slash, 97, Slash, 98>>
    /\ \E ord \in ListingOrders : walk_file_list(tree, ord) # ar.file_list

(***************************************************************************)
(* Claims about the composition of RUSTFLAGS.                              *)
(***************************************************************************)
When(cond, flag) == IF cond THEN flag ELSE <<>>

\* C12: the returned RUSTFLAGS is always set and is the RUSTFLAGS of the
\* process environment (or the empty string) followed by, in this order and
\* each once when it applies: build.rustflags after a space, the gold
\* linker flag (off win32, rustc-with-gold set, ld.gold found), the neon
\* flag (a target argument that starts with arm or aarch64), the
\* unused-extern-crates lint (always), the thinlto flag (build.thinlto).
C12_FlagOrder ==
    Ret =>
        /\ Has(Out, "RUSTFLAGS")
        /\ "RUSTFLAGS" \in Written
        /\ Out["RUSTFLAGS"] =
               Get(environ, "RUSTFLAGS", <<>>)
               \o When(config.rustflags # <<>>, <<" ">> \o config.rustflags)
               \o When(config.rustc_with_gold /\ platform # "win32" /\ world.ld_gold,
                       <<" -C link-args=-fuse-ld=gold">>)
               \o When(call.a.target # "" /\ IsArm(call.a.target),
                       <<" -C target-feature=+neon">>)
               \o <<" -W unused-extern-crates">>
               \o When(config.thinlto, <<" -Z thinlto">>)

C12_Witness ==
    /\ Ret
    /\ Has(environ, "RUSTFLAGS") /\ environ["RUSTFLAGS"] # <<>>
    /\ config.thinlto
    /\ IsArm(call.a.target)
    /\ Out["RUSTFLAGS"] = environ["RUSTFLAGS"]
           \o <<" -C target-feature=+neon", " -W unused-extern-crates", " -Z thinlto">>

(***************************************************************************)
(* Claims about the temporary file.                                        *)
(***************************************************************************)
\* C13: when the call has returned normally the destination holds exactly
\* the stream this call wrote (the gzip header, its members, the tar end,
\* the gzip trailer), whatever was at the temporary path before the call.
C13_OnlyThisRun ==
    ar.pc = "done" => (dest.present /\ dest.data = ar.out)

(***************************************************************************)
(* Claims about the path get_binary_path returns.                          *)
(***************************************************************************)
\* <targetDir>[/<androidTarget>]/<profile>/<binaryName>
Layout(android, profile) ==
    (IF Has(environ, "CARGO_TARGET_DIR")
     THEN environ["CARGO_TARGET_DIR"]
     ELSE <<"top", "target">>)
    \o (IF android THEN <<config.android_target>> ELSE <<>>)
    \o <<profile, IF platform = "win32" THEN "servo.exe" ELSE "servo">>

\* C14: a returned value is the release path or the debug path under the
\* target directory, with the android target inserted when android is set,
\* and the file at it exists.
C14_ReturnsBuilt ==
    (ret.called /\ ret.out.kind = "return") =>
        /\ ret.out.value \in {Layout(ret.android, "release"),
                              Layout(ret.android, "debug")}
        /\ ret.out.value \in files

C14_Witness ==
    /\ ret.called /\ ret.out.kind = "return"
    /\ ret.android /\ ~ret.release /\ ~ret.dev
    /\ Has(environ, "CARGO_TARGET_DIR")
    /\ ret.out.value = Layout(TRUE, "debug")
    /\ files = {ret.out.value}

(***************************************************************************)
(* Claims about ensure_bootstrapped.                                       *)
(***************************************************************************)
\* C15: once a call has returned normally context.bootstrapped is True, and
\* it stays True; a bootstrap dispatch begins only in a call made while
\* bootstrapped is False, before any call has returned normally, whose
\* target (or the host triple) contains "msvc"; at most one dispatch
\* returns.
C15_BootOnce ==
    /\ [](boot.returned => bootstrapped)
    /\ [][bootstrapped => bootstrapped']_vars
    /\ [][boot'.dispatched # boot.dispatched =>
             /\ ~bootstrapped
             /\ ~boot.returned
             /\ HasMsvc(target_platform(boot'.target))]_vars
    /\ [](boot.completed <= 1)

C15_Witness ==
    /\ boot.pc = "returned"
    /\ bootstrapped
    /\ boot.calls = 3
    /\ boot.dispatched = 2
    /\ boot.completed = 1
    /\ boot.instances = 2
    /\ HasMsvc(target_platform(boot.target))

====
